---- MODULE Spec2Model ----
(***************************************************************************)
(* The FAQ service of app.py: three GET routes over one data file          *)
(* (faq.json) that is re-read on every request, and three JSON error       *)
(* handlers.  One request is in flight at a time; the data file is changed *)
(* by other processes at any moment, also between the two file system      *)
(* accesses of load_faq_data (os.path.exists, then open + json.load).      *)
(***************************************************************************)
EXTENDS Naturals, Sequences, FiniteSets

VARIABLES
    file,      \* faq.json on disk, as the other processes left it
    debug,     \* whether the app runs under app.run(debug=True) or a WSGI server
    pc,        \* where the request in flight stands
    req,       \* the request in flight: method, path
    resp,      \* its response, once built
    log,       \* the lines it wrote to app.logger
    checkSaw,  \* the kind of file os.path.exists looked at
    openSaw,   \* the file open() + json.load read
    outcome,   \* how load_faq_data ended for it
    prev       \* the request answered before it, its loader outcome and response

vars == <<file, debug, pc, req, resp, log, checkSaw, openSaw, outcome, prev>>

(* ------------------------------ bounds --------------------------------- *)

\* longest member list of a JSON object written to the data file
MaxMembers == 2
\* longest top-level JSON array / string written to the data file
MaxItems == 1

(* --------------------------- the data file ----------------------------- *)

\* member names used in the data file
FileKeys == {"a", "b"}
\* entry values are opaque to the service: one token per JSON shape
EntryValues == {"string:text", "array:[1,2]", "object:{q:1}"}
\* elements of a top-level array, characters of a top-level string
ItemAlphabet == {"a", "z"}

NoPairs == << >>
NoItems == << >>

\* texts of JSON objects: the members in file order, names unique
ObjectPairs ==
    { s \in UNION { [1..n -> FileKeys \X EntryValues] : n \in 0..MaxMembers } :
        \A i, j \in DOMAIN s : i # j => s[i][1] # s[j][1] }

ItemSeqs == UNION { [1..n -> ItemAlphabet] : n \in 0..MaxItems }

MissingFile == [kind |-> "missing", shape |-> "none", pairs |-> NoPairs, items |-> NoItems]
\* the file exists and is not valid JSON
MalformedFile == [kind |-> "malformed", shape |-> "none", pairs |-> NoPairs, items |-> NoItems]
\* the file exists and open() or read() raises (a directory, no permission, bad UTF-8)
UnreadableFile == [kind |-> "unreadable", shape |-> "none", pairs |-> NoPairs, items |-> NoItems]

ObjectFiles == { [kind |-> "json", shape |-> "object", pairs |-> p, items |-> NoItems] : p \in ObjectPairs }
NonObjectFiles ==
    { [kind |-> "json", shape |-> sh, items |-> it, pairs |-> NoPairs] :
        sh \in {"array", "string"}, it \in ItemSeqs }
    \cup { [kind |-> "json", shape |-> sh, items |-> NoItems, pairs |-> NoPairs] :
        sh \in {"number", "null"} }

PresentFiles == {MalformedFile, UnreadableFile} \cup ObjectFiles \cup NonObjectFiles
FileStates == {MissingFile} \cup PresentFiles

(* --------------------------- parsed values ----------------------------- *)

EmptyMembers == [k \in {} |-> ""]
NoValue == [shape |-> "none", members |-> EmptyMembers, items |-> NoItems]

\* a dict built member by member: a later member replaces an earlier one of the same name
RECURSIVE DictOf(_)
DictOf(pairs) ==
    IF pairs = << >> THEN EmptyMembers
    ELSE LET n == Len(pairs)
             head == DictOf(SubSeq(pairs, 1, n - 1))
             k == pairs[n][1]
         IN [x \in (DOMAIN head) \cup {k} |-> IF x = k THEN pairs[n][2] ELSE head[x]]

\* a parse that loses the last member of an object
json_load_truncated(f) ==
    IF f.shape = "object"
    THEN [shape |-> "object",
          members |-> DictOf(SubSeq(f.pairs, 1, IF Len(f.pairs) = 0 THEN 0 ELSE Len(f.pairs) - 1)),
          items |-> NoItems]
    ELSE [shape |-> f.shape, members |-> EmptyMembers, items |-> f.items]

\* json.load on a file holding valid JSON
json_load(f) ==
    IF f.shape = "object"
    THEN [shape |-> "object", members |-> DictOf(f.pairs), items |-> NoItems]
    ELSE [shape |-> f.shape, members |-> EmptyMembers, items |-> f.items]

(* ------------------------------ messages ------------------------------- *)

MsgMissing == "Server configuration error: Data file 'faq.json' is missing."
MsgDecode == "Error decoding data from 'faq.json'. Please check its format."
MsgUnexpected == "An unexpected error occurred while trying to load data."
MsgHealthy == "API is healthy and data file is accessible."
MsgUnhealthy == "API is unhealthy or data source is unavailable."
MsgKeyNotFound == "FAQ item not found"
\* the descriptions werkzeug gives its own NotFound, MethodNotAllowed, InternalServerError
Werkzeug404 == "The requested URL was not found on the server."
Werkzeug405 == "The method is not allowed for the requested URL."
Werkzeug500 == "The server encountered an internal error and was unable to complete your request."

LogMissing == "Critical Error: The data file 'faq.json' was not found."
LogDecode == "JSON Decode Error in 'faq.json'"
LogUnexpected == "An unexpected error occurred while loading 'faq.json'"
LogHealth == "Health check failed"

(* ------------------------------ responses ------------------------------ *)

Body(kind) ==
    [kind |-> kind, doc |-> NoValue, entry |-> "", error_code |-> "",
     message |-> "", requested_key |-> ""]

NoResp == [status |-> 0, body |-> Body("none")]

\* jsonify(x), status
JsonDoc(data, status) == [status |-> status, body |-> [Body("json") EXCEPT !.doc = data]]
JsonEntry(v, status) == [status |-> status, body |-> [Body("json_entry") EXCEPT !.entry = v]]

Envelope(code, message, status) ==
    [status |-> status,
     body |-> [Body("envelope") EXCEPT !.error_code = code, !.message = message]]

not_found_error(description) ==
    Envelope("NOT_FOUND",
             IF description # "" THEN description
             ELSE "The requested resource was not found on this server.", 404)

internal_error(description) ==
    Envelope("INTERNAL_SERVER_ERROR",
             IF description # "" THEN description
             ELSE "An unexpected error occurred on the server. Please try again later.", 500)

method_not_allowed_error(description) ==
    Envelope("METHOD_NOT_ALLOWED",
             IF description # "" THEN description
             ELSE "The method is not allowed for the requested URL.", 405)


\* the interactive debugger's traceback page (app.run(debug=True))
DebuggerPage == [status |-> 500, body |-> Body("debugger_html")]

(* ----------------------------- the loader ------------------------------ *)

\* what a call leaves behind: a returned value, an abort(code, description)
\* (a werkzeug HTTPException), or another exception that nothing caught
Returned(data) ==
    [result |-> "return", tag |-> "ok", code |-> 0, description |-> "",
     data |-> data, log |-> << >>]
Aborted(tag, code, description, line) ==
    [result |-> "abort", tag |-> tag, code |-> code, description |-> description,
     data |-> NoValue, log |-> << line >>]
Raised(tag) ==
    [result |-> "raise", tag |-> tag, code |-> 0, description |-> "",
     data |-> NoValue, log |-> << >>]

\* os.path.exists(FAQ_FILE)
ExistsCheck(f) == f.kind # "missing"

\* a missing file reported as a 404
LoaderMissingAs404 == Aborted("NotFound", 404, MsgMissing, LogMissing)

\* the branch taken when the existence check fails
LoaderMissing == Aborted("NotFound", 500, MsgMissing, LogMissing)

\* a loader that lets everything but a JSON decode error escape
OpenAndParseNoCatchAll(f) ==
    CASE f.kind = "json" -> Returned(json_load(f))
      [] f.kind = "malformed" -> Aborted("ParseError", 500, MsgDecode, LogDecode)
      [] OTHER -> Raised("UnexpectedIO")

\* a loader that treats a decode error as an empty document
OpenAndParseSwallow(f) ==
    CASE f.kind = "json" -> Returned(json_load(f))
      [] f.kind = "malformed" -> Returned([NoValue EXCEPT !.shape = "object"])
      [] OTHER -> Aborted("UnexpectedIO", 500, MsgUnexpected, LogUnexpected)

\* a loader that remembers a decode failure of the request before
OpenAndParseCachedFailure(f) ==
    CASE prev.outcome = "ParseError" -> Aborted("ParseError", 500, MsgDecode, LogDecode)
      [] f.kind = "json" -> Returned(json_load(f))
      [] f.kind = "malformed" -> Aborted("ParseError", 500, MsgDecode, LogDecode)
      [] OTHER -> Aborted("UnexpectedIO", 500, MsgUnexpected, LogUnexpected)

\* the try block: open + json.load, JSONDecodeError, then any other Exception
\* (open() of a file that is gone raises FileNotFoundError, caught by the last clause)
OpenAndParse(f) ==
    CASE f.kind = "json" -> Returned(json_load(f))
      [] f.kind = "malformed" -> Aborted("ParseError", 500, MsgDecode, LogDecode)
      [] OTHER -> Aborted("UnexpectedIO", 500, MsgUnexpected, LogUnexpected)

(* ------------------------------ the views ------------------------------ *)

\* a view's result before the framework's error handling
Responded(r) == [result |-> "response", resp |-> r, code |-> 0, description |-> ""]
Propagated(out) ==
    [result |-> out.result, resp |-> NoResp, code |-> out.code, description |-> out.description]
TypeError == [result |-> "raise", resp |-> NoResp, code |-> 0, description |-> ""]

\* Python's  key in data  for a str key: "true", "false" or "TypeError"
py_contains(key, data) ==
    CASE data.shape = "object" -> IF key \in DOMAIN data.members THEN "true" ELSE "false"
      [] data.shape = "array" ->
            IF \E i \in DOMAIN data.items : data.items[i] = key THEN "true" ELSE "false"
      \* a str: substring test; the keys requested are single characters
      [] data.shape = "string" ->
            IF \E i \in DOMAIN data.items : data.items[i] = key THEN "true" ELSE "false"
      [] OTHER -> "TypeError"

health_check(out) ==
    IF out.result = "return"
    THEN Responded([status |-> 200, body |-> [Body("health") EXCEPT !.message = MsgHealthy]])
    \* except Exception: werkzeug's HTTPException is an Exception too
    ELSE Responded([status |-> 503, body |-> [Body("health_error") EXCEPT !.message = MsgUnhealthy]])

get_all_faq(out) ==
    IF out.result = "return" THEN Responded(JsonDoc(out.data, 200)) ELSE Propagated(out)

\* a lookup that answers with the whole document
get_specific_faq_whole(out, faq_key) ==
    IF out.result # "return" THEN Propagated(out)
    ELSE Responded(JsonDoc(out.data, 200))

get_specific_faq(out, faq_key) ==
    IF out.result # "return" THEN Propagated(out)
    ELSE LET found == py_contains(faq_key, out.data)
         IN CASE found = "TypeError" -> TypeError
              [] found = "true" ->
                    IF out.data.shape = "object"
                    THEN Responded(JsonEntry(out.data.members[faq_key], 200))
                    ELSE TypeError  \* list / str indices must be integers
              [] OTHER ->
                    Responded([status |-> 404,
                               body |-> [Body("key_not_found") EXCEPT
                                            !.message = MsgKeyNotFound,
                                            !.requested_key = faq_key]])

(* ----------------------- routing and error handling -------------------- *)

Methods == {"GET", "HEAD", "OPTIONS", "POST", "DELETE"}
ReqKeys == {"a", "z"}
\* request paths as their segments
Paths == { <<"health">>, <<"api", "faq">>, <<"nope">> } \cup { <<"api", "faq", k>> : k \in ReqKeys }

NoMatch == [route |-> "none", key |-> ""]

\* the URL map of the three @app.route rules
MatchRoute(path) ==
    CASE path = <<"health">> -> [route |-> "health", key |-> ""]
      [] path = <<"api", "faq">> -> [route |-> "get_all_faq", key |-> ""]
      [] Len(path) = 3 /\ path[1] = "api" /\ path[2] = "faq" /\ path[3] # "" ->
            [route |-> "get_specific_faq", key |-> path[3]]
      [] OTHER -> NoMatch

\* a rule that also lists POST
RouteMethodsWithPost == {"GET", "HEAD", "OPTIONS", "POST"}

\* methods=['GET']: werkzeug adds HEAD to a rule that allows GET, Flask adds OPTIONS
RouteMethods == {"GET", "HEAD", "OPTIONS"}

\* Flask's automatic OPTIONS response: 200, an Allow header, no body
OptionsResponse == [status |-> 200, body |-> Body("empty")]

\* a HEAD request runs the GET view; the body is not sent
StripBody(m, r) == IF m = "HEAD" THEN [r EXCEPT !.body = Body("empty")] ELSE r

\* the registered error handlers, by status code
HandleAbort(code, description) ==
    CASE code = 404 -> not_found_error(description)
      [] code = 500 -> internal_error(description)
      [] code = 405 -> method_not_allowed_error(description)
      [] OTHER -> [status |-> code, body |-> Body("werkzeug_html")]

\* an exception that is no HTTPException: re-raised into the debugger under
\* debug=True, else wrapped in InternalServerError and given to the 500 handler
HandleUnhandled(dbg) == IF dbg THEN DebuggerPage ELSE internal_error(Werkzeug500)

Finalize(vr, dbg) ==
    CASE vr.result = "response" -> vr.resp
      [] vr.result = "abort" -> HandleAbort(vr.code, vr.description)
      [] OTHER -> HandleUnhandled(dbg)

RunView(m, match, out) ==
    CASE match.route = "health" -> health_check(out)
      [] match.route = "get_all_faq" -> get_all_faq(out)
      [] OTHER -> get_specific_faq(out, match.key)

ViewLog(m, match, out) ==
    IF match.route = "health" /\ out.result # "return"
    THEN out.log \o << LogHealth >> ELSE out.log

(* ------------------------------ the state ------------------------------ *)

NoReq == [method |-> "", path |-> << >>]
Unread == [kind |-> "unread", shape |-> "none", pairs |-> NoPairs, items |-> NoItems]
NoPrev == [req |-> NoReq, outcome |-> "none", resp |-> NoResp]

\* what is kept of an answered request: the response without its payload
Summary(r) == [r EXCEPT !.body.doc = NoValue, !.body.entry = ""]

Init ==
    /\ file \in FileStates
    /\ debug \in BOOLEAN
    /\ pc = "idle"
    /\ req = NoReq
    /\ resp = NoResp
    /\ log = << >>
    /\ checkSaw = "none"
    /\ openSaw = Unread
    /\ outcome = "none"
    /\ prev = NoPrev

(* ------------------------- the other processes ------------------------- *)

\* the response of a finished request no longer depends on the file, so the
\* file is left alone between the end of the view and its delivery
WriteFile(f) ==
    /\ pc # "done"
    /\ f \in PresentFiles
    /\ f # file
    /\ file' = f
    /\ UNCHANGED <<debug, pc, req, resp, log, checkSaw, openSaw, outcome, prev>>

DeleteFile ==
    /\ pc # "done"
    /\ file # MissingFile
    /\ file' = MissingFile
    /\ UNCHANGED <<debug, pc, req, resp, log, checkSaw, openSaw, outcome, prev>>

(* ----------------------------- a request ------------------------------- *)

\* the request ends with response r
Respond(r, lines, how) ==
    /\ resp' = r
    /\ log' = lines
    /\ outcome' = how
    /\ pc' = "done"

\* routing: no rule matches (404), the rule does not allow the method (405),
\* the automatic OPTIONS answer, or the view is entered
Dispatch(m, path) ==
    /\ pc = "idle"
    /\ req' = [method |-> m, path |-> path]
    /\ LET match == MatchRoute(path)
       IN CASE match = NoMatch ->
                 Respond(not_found_error(Werkzeug404), << >>, "none")
            [] match # NoMatch /\ m \notin RouteMethods ->
                 Respond(method_not_allowed_error(Werkzeug405), << >>, "none")
            [] match # NoMatch /\ m = "OPTIONS" ->
                 Respond(OptionsResponse, << >>, "none")
            [] OTHER ->
                 /\ pc' = "exists"
                 /\ UNCHANGED <<resp, log, outcome>>
    /\ UNCHANGED <<file, debug, checkSaw, openSaw, prev>>

\* the view up to the end of its load_faq_data call, and its response
Complete(out) ==
    LET match == MatchRoute(req.path)
    IN Respond(StripBody(req.method, Finalize(RunView(req.method, match, out), debug)),
               ViewLog(req.method, match, out), out.tag)

\* load_faq_data: if not os.path.exists(FAQ_FILE)
LoaderExists ==
    /\ pc = "exists"
    /\ checkSaw' = file.kind
    /\ IF ExistsCheck(file)
       THEN /\ pc' = "open"
            /\ UNCHANGED <<resp, log, outcome>>
       ELSE Complete(LoaderMissing)
    /\ UNCHANGED <<file, debug, req, openSaw, prev>>

\* load_faq_data: the try block, then the rest of the view
LoaderOpen ==
    /\ pc = "open"
    /\ openSaw' = file
    /\ Complete(OpenAndParse(file))
    /\ UNCHANGED <<file, debug, req, checkSaw, prev>>

\* the response is sent; the service keeps nothing of the request
Deliver ==
    /\ pc = "done"
    /\ prev' = [req |-> req, outcome |-> outcome, resp |-> Summary(resp)]
    /\ pc' = "idle"
    /\ req' = NoReq
    /\ resp' = NoResp
    /\ log' = << >>
    /\ checkSaw' = "none"
    /\ openSaw' = Unread
    /\ outcome' = "none"
    /\ UNCHANGED <<file, debug>>

Next ==
    \/ \E f \in PresentFiles : WriteFile(f)
    \/ DeleteFile
    \/ \E m \in Methods, path \in Paths : Dispatch(m, path)
    \/ LoaderExists
    \/ LoaderOpen
    \/ Deliver

Spec == Init /\ [][Next]_vars

(* ------------------------ what the claims speak of --------------------- *)

Route == MatchRoute(req.path)
Answered == pc = "done"
AnsweredGet(route) == Answered /\ req.method = "GET" /\ Route.route = route

\* the document on disk, read off the file's text
DiskKeys(f) == { f.pairs[i][1] : i \in DOMAIN f.pairs }
DiskValue(f, k) == CHOOSE v \in EntryValues : \E i \in DOMAIN f.pairs : f.pairs[i] = <<k, v>>
DiskDocument(f) ==
    [shape |-> f.shape,
     members |-> [k \in DiskKeys(f) |-> DiskValue(f, k)],
     items |-> f.items]

\* the file made the loader fail: it was missing at the existence check, or
\* missing, unreadable or malformed when it was opened
FailKinds == {"missing", "unreadable", "malformed"}
LoadFailedOnFile == checkSaw = "missing" \/ openSaw.kind \in FailKinds
LoaderFailures == {"NotFound", "ParseError", "UnexpectedIO"}
LoaderMessages == {MsgMissing, MsgDecode, MsgUnexpected}

TypeOK ==
    /\ file \in FileStates
    /\ debug \in BOOLEAN
    /\ pc \in {"idle", "exists", "open", "done"}
    /\ req.method \in Methods \cup {""}
    /\ resp.status \in {0, 200, 404, 405, 500, 503}
    /\ checkSaw \in {"none", "missing", "malformed", "unreadable", "json"}
    /\ openSaw \in FileStates \cup {Unread}
    /\ outcome \in LoaderFailures \cup {"none", "ok"}

(* C1: when the document loads and holds key k, GET /api/faq/k answers 200 *)
(* with a body equal to the document's value at k.                          *)
C1_EntryServed ==
    (AnsweredGet("get_specific_faq") /\ outcome = "ok" /\ openSaw.shape = "object"
        /\ Route.key \in DiskKeys(openSaw))
    => resp = [status |-> 200,
               body |-> [Body("json_entry") EXCEPT !.entry = DiskValue(openSaw, Route.key)]]

C1_Witness ==
    /\ AnsweredGet("get_specific_faq") /\ outcome = "ok"
    /\ Len(openSaw.pairs) = 2
    /\ Route.key \in DiskKeys(openSaw)
    /\ resp.status = 200
    /\ resp.body.entry = "array:[1,2]"

(* C2: when the document loads and does not hold key k, GET /api/faq/k     *)
(* answers 404 with {"error": "FAQ item not found", "requested_key": k},   *)
(* not with the error envelope.                                            *)
C2_KeyNotFound ==
    (AnsweredGet("get_specific_faq") /\ outcome = "ok" /\ Route.key \notin DiskKeys(openSaw))
    => resp = [status |-> 404,
               body |-> [Body("key_not_found") EXCEPT !.message = MsgKeyNotFound,
                                                      !.requested_key = Route.key]]

\* the same, for the documents that are JSON objects
C2_KeyNotFoundInObject ==
    (AnsweredGet("get_specific_faq") /\ outcome = "ok" /\ openSaw.shape = "object"
        /\ Route.key \notin DiskKeys(openSaw))
    => resp = [status |-> 404,
               body |-> [Body("key_not_found") EXCEPT !.message = MsgKeyNotFound,
                                                      !.requested_key = Route.key]]

(* C3: for a well-formed data file GET /api/faq answers 200 with a body    *)
(* equal to the whole document on disk.                                    *)
C3_WholeDocument ==
    (AnsweredGet("get_all_faq") /\ openSaw.kind = "json")
    => resp = [status |-> 200, body |-> [Body("json") EXCEPT !.doc = DiskDocument(openSaw)]]

C3_Witness ==
    /\ AnsweredGet("get_all_faq")
    /\ openSaw.shape = "object" /\ Len(openSaw.pairs) = 2
    /\ resp.status = 200
    /\ DOMAIN resp.body.doc.members = FileKeys

(* C4: when the loader fails, GET /health answers 500 with the error       *)
(* envelope INTERNAL_SERVER_ERROR, never 503.                              *)
C4_HealthFailureIs500 ==
    (AnsweredGet("health") /\ LoadFailedOnFile)
    => /\ resp.status = 500
       /\ resp.body.kind = "envelope"
       /\ resp.body.error_code = "INTERNAL_SERVER_ERROR"

(* C5: when the loader fails, GET /api/faq and GET /api/faq/k answer 500   *)
(* with {"error_code": "INTERNAL_SERVER_ERROR", "message": <string>}.      *)
C5_LoadFailureIs500 ==
    ((AnsweredGet("get_all_faq") \/ AnsweredGet("get_specific_faq")) /\ LoadFailedOnFile)
    => /\ resp.status = 500
       /\ resp.body.kind = "envelope"
       /\ resp.body.error_code = "INTERNAL_SERVER_ERROR"
       /\ resp.body.message \in LoaderMessages
       /\ outcome \in LoaderFailures

C5_Witness ==
    /\ AnsweredGet("get_specific_faq")
    /\ openSaw.kind = "malformed"
    /\ resp.status = 500
    /\ resp.body.error_code = "INTERNAL_SERVER_ERROR"

\* the same request as the one before, and the loader failed for both
SameRequestFailedTwice ==
    /\ Answered /\ req.method = "GET" /\ prev.req = req
    /\ outcome \in LoaderFailures /\ prev.outcome \in LoaderFailures

(* C6, as stated: the three loader failures give the same request the same *)
(* response, status and whole body.                                        *)
C6_SameResponse == SameRequestFailedTwice => Summary(resp) = prev.resp

(* C6, amended: the three loader failures give the same request the same   *)
(* status, the same body shape and the same error_code; on /health the     *)
(* whole body is the same, on the two FAQ routes the message names the     *)
(* failure and differs between two different failures.                     *)
C6_SameStatusAndCode ==
    SameRequestFailedTwice
    => /\ resp.status = prev.resp.status
       /\ resp.body.kind = prev.resp.body.kind
       /\ resp.body.error_code = prev.resp.body.error_code
       /\ Route.route = "health" => Summary(resp) = prev.resp
       /\ (Route.route # "health" /\ outcome # prev.outcome)
            => resp.body.message # prev.resp.body.message

C6_Witness ==
    /\ SameRequestFailedTwice
    /\ Route.route = "get_all_faq"
    /\ prev.outcome = "NotFound" /\ outcome = "UnexpectedIO"
    /\ resp.status = 500 /\ prev.resp.status = 500
    /\ resp.body.message # prev.resp.body.message

(* C7, as stated: on a registered path every method other than GET answers *)
(* 405 METHOD_NOT_ALLOWED without the loader being called.                 *)
C7_NonGetIs405 ==
    (Answered /\ Route # NoMatch /\ req.method # "GET")
    => /\ resp = Envelope("METHOD_NOT_ALLOWED", Werkzeug405, 405)
       /\ checkSaw = "none"

(* C7, amended: on a registered path every method other than GET, HEAD and *)
(* OPTIONS answers 405 METHOD_NOT_ALLOWED without the loader being called. *)
C7_OtherMethodsAre405 ==
    (Answered /\ Route # NoMatch /\ req.method \notin {"GET", "HEAD", "OPTIONS"})
    => /\ resp = Envelope("METHOD_NOT_ALLOWED", Werkzeug405, 405)
       /\ checkSaw = "none" /\ openSaw = Unread /\ outcome = "none" /\ log = << >>

C7_Witness ==
    /\ Answered /\ req.method = "POST" /\ Route.route = "get_all_faq"
    /\ file = MissingFile
    /\ resp.status = 405 /\ resp.body.error_code = "METHOD_NOT_ALLOWED"

(* C8: no caching: the response of a GET on the three routes follows from  *)
(* the file as this request read it, whatever the request before saw: it   *)
(* fails when the file is missing at its existence check or malformed at   *)
(* its read, and succeeds with the document it read otherwise.             *)
C8_FreshRead ==
    (Answered /\ req.method = "GET" /\ Route # NoMatch)
    => /\ checkSaw = "missing" =>
            IF Route.route = "health" THEN resp.status = 503
            ELSE resp = internal_error(MsgMissing)
       /\ openSaw.kind = "malformed" =>
            IF Route.route = "health" THEN resp.status = 503
            ELSE resp = internal_error(MsgDecode)
       /\ (openSaw.kind = "json" /\ openSaw.shape = "object") =>
            CASE Route.route = "health" -> resp.status = 200
              [] Route.route = "get_all_faq" ->
                    resp.status = 200 /\ resp.body.doc = DiskDocument(openSaw)
              [] OTHER ->
                    IF Route.key \in DiskKeys(openSaw)
                    THEN resp.status = 200 /\ resp.body.entry = DiskValue(openSaw, Route.key)
                    ELSE resp.status = 404

\* the file was repaired between two requests: the earlier failed, this one succeeds
C8_Witness ==
    /\ AnsweredGet("get_all_faq") /\ prev.req = req
    /\ prev.outcome = "ParseError" /\ prev.resp.status = 500
    /\ openSaw.shape = "object" /\ Len(openSaw.pairs) = 1
    /\ resp.status = 200

\* the file was deleted between two requests: the earlier succeeded, this one fails
C8_WitnessDeleted ==
    /\ AnsweredGet("get_specific_faq") /\ prev.req = req
    /\ prev.outcome = "ok" /\ prev.resp.status = 200
    /\ checkSaw = "missing"
    /\ resp.status = 500

(* C9: whenever load_faq_data returns normally, what it returns is a JSON  *)
(* object; valid JSON that is no object is rejected.                       *)
C9_LoadedIsObject ==
    (Answered /\ outcome = "ok") => json_load(openSaw).shape = "object"

(* C10: when the file is removed or corrupted between the existence check  *)
(* and the read, GET /api/faq and GET /api/faq/k still answer 500 with the *)
(* INTERNAL_SERVER_ERROR envelope, through the decode or the catch-all     *)
(* branch of the loader.                                                   *)
C10_RaceIs500 ==
    ((AnsweredGet("get_all_faq") \/ AnsweredGet("get_specific_faq"))
        /\ checkSaw = "json" /\ openSaw.kind \in FailKinds)
    => /\ resp.status = 500
       /\ resp.body.kind = "envelope"
       /\ resp.body.error_code = "INTERNAL_SERVER_ERROR"
       /\ resp.body.message \in {MsgDecode, MsgUnexpected}
       /\ outcome \in {"ParseError", "UnexpectedIO"}

C10_Witness ==
    /\ AnsweredGet("get_all_faq")
    /\ checkSaw = "json" /\ openSaw.kind = "missing"
    /\ resp = internal_error(MsgUnexpected)
====
